---------------------------- MODULE Spec2Model ----------------------------
(***************************************************************************)
(* State-machine model of the LoadingScreen component                      *)
(* (src/src/components/LoadingScreen.tsx): the tier classifier, the        *)
(* one-shot completion gate (handleEnd / completedRef), the three          *)
(* tier-keyed timer effects, the media element's handlers and the          *)
(* requestAnimationFrame progress loop.                                    *)
(*                                                                         *)
(* Time is kept as clocks relative to the moment they were started: each   *)
(* pending timer carries the ms elapsed since setTimeout, and `age' is the *)
(* ms elapsed since the [tier]-keyed effects last ran (performance.now()   *)
(* - start of the progress effect).  An event handler together with the    *)
(* render, effect cleanups and effect bodies it causes is one step.        *)
(***************************************************************************)
EXTENDS Integers, Sequences, FiniteSets

\* ------------------------------------------------------------ bounds
\* The branch clock saturates here (ms); every delay of the code is below it.
MaxAge == 9000
\* Largest viewport width tried when the classifier is checked alone.
MaxWidth == 1100
\* Number of distinct onComplete identities the host may pass.
MaxCallbacks == 2
\* Branch activations remembered exactly by the observation trail.
MaxTrail == 2

\* ------------------------------------------------- program constants
MobileMax == 768
TabletMax == 1024
MobileDelay == 2000
TabletDelay == 2500
DesktopCap == 8000
MobileDuration == 1800
TabletDuration == 2200

Tiers == {"mobile", "tablet", "desktop"}

\* Viewport widths the environment may report (window.innerWidth).
Widths == {767, 768, 1023, 1024}

Callbacks == 1..MaxCallbacks

\* Granularity of idle time (ms): time passes to the branch clock's next
\* multiple of one of these, or to one of the instants the code schedules.
Idle == {1000}

VARIABLES
    mounted,       \* the component is mounted (its effects are live)
    innerWidth,    \* window.innerWidth
    tier,          \* useState<DeviceTier>
    videoReady,    \* useState(false)
    progress,      \* useState(0): a fraction <<numerator, denominator>>
    completedRef,  \* useRef(false).current
    onComplete,    \* identity of the onComplete prop of the last render
    timers,        \* pending setTimeout entries of the three timer effects
    raf,           \* pending requestAnimationFrame(tick) closures
    age,           \* ms since the [tier]-keyed effects ran (now - start)
    video,         \* the <video> element: absent, playing, ended, failed
    calls,         \* observation: the invocations of onComplete, in order
    trail,         \* observation: the tiers activated, in order
    ticked         \* observation: tick has run since the progress effect

vars == <<mounted, innerWidth, tier, videoReady, progress, completedRef,
          onComplete, timers, raf, age, video, calls, trail, ticked>>

\* ------------------------------------------------------------ helpers
Min(a, b) == IF a < b THEN a ELSE b

RECURSIVE Gcd(_, _)
Gcd(a, b) == IF b = 0 THEN a ELSE Gcd(b, a % b)

\* The number n/d (d > 0, n >= 0) in lowest terms.
Frac(n, d) == LET g == Gcd(n, d) IN <<n \div g, d \div g>>

FracLess(p, q) == p[1] * q[2] < q[1] * p[2]
FracLeq(p, q) == p[1] * q[2] <= q[1] * p[2]

\* ------------------------------------------------------ tier classifier
\* Variant: the first comparison is <= instead of <.
getDeviceTier_OffByOne(w) ==
    IF w <= MobileMax THEN "mobile"
    ELSE IF w < TabletMax THEN "tablet"
    ELSE "desktop"

getDeviceTier(w) ==
    IF w < MobileMax THEN "mobile"
    ELSE IF w < TabletMax THEN "tablet"
    ELSE "desktop"

\* ------------------------------------------------------ completion gate
\* Variant: the guard on completedRef.current is missing.
handleEnd_NoLatch(cb) ==
    /\ completedRef' = TRUE
    /\ calls' = Append(calls, cb)

\* Variant: the flag is flipped instead of set.
handleEnd_Toggle(cb) ==
    IF completedRef
    THEN /\ completedRef' = FALSE
         /\ UNCHANGED calls
    ELSE /\ completedRef' = TRUE
         /\ calls' = Append(calls, cb)

\* handleEnd built from the onComplete identity cb.
handleEnd(cb) ==
    IF completedRef
    THEN UNCHANGED <<completedRef, calls>>
    ELSE /\ completedRef' = TRUE
         /\ calls' = Append(calls, cb)

\* ---------------------------------------------------------- the effects
\* Delay of the timer effect that is active for tier t.
Delay(t) ==
    CASE t = "mobile" -> MobileDelay
      [] t = "tablet" -> TabletDelay
      [] t = "desktop" -> DesktopCap

\* Variant: the desktop effect arms no cap timer.
TimerEffects_NoCap(t, cb) ==
    IF t = "desktop" THEN {}
    ELSE {[owner |-> t, delay |-> Delay(t), elapsed |-> 0, cb |-> cb]}

\* The three timer effects run for tier t with handleEnd built from cb:
\* every cleanup has cleared its timer, the effect of t arms a new one.
TimerEffects(t, cb) ==
    {[owner |-> t, delay |-> Delay(t), elapsed |-> 0, cb |-> cb]}

\* duration of the progress effect.
Duration(t) == IF t = "mobile" THEN MobileDuration ELSE TabletDuration

\* Variant: the early return for desktop is missing.
ProgressEffect_AllTiers(t) == {[duration |-> Duration(t)]}

\* The progress effect run for tier t: nothing for desktop, else one
\* requestAnimationFrame(tick) with start = now.
ProgressEffect(t) ==
    IF t = "desktop" THEN {} ELSE {[duration |-> Duration(t)]}

\* The <video> element is rendered for the desktop tier only.
VideoFor(t) == IF t = "desktop" THEN "playing" ELSE "absent"

\* Observation of a branch activation: the trail is exact up to MaxTrail
\* activations and is Forgotten beyond.
Forgotten == <<"many">>

Remember(t) ==
    IF trail # Forgotten /\ Len(trail) < MaxTrail THEN Append(trail, t)
    ELSE Forgotten

\* ---------------------------------------------------------------- Init
\* The state after the first render and its effects, the viewport width
\* being one of W.
InitWith(W) ==
    /\ mounted = TRUE
    /\ innerWidth \in W
    /\ tier = getDeviceTier(innerWidth)
    /\ videoReady = FALSE
    /\ progress = <<0, 1>>
    /\ completedRef = FALSE
    /\ onComplete = 1
    /\ timers = TimerEffects(tier, onComplete)
    /\ raf = ProgressEffect(tier)
    /\ age = 0
    /\ video = VideoFor(tier)
    /\ calls = <<>>
    /\ trail = <<tier>>
    /\ ticked = FALSE

Init == InitWith(Widths)

\* ------------------------------------------------------------- actions
\* Variant: every resize event runs the effects again, whether or not the
\* tier differs.
Resize_AlwaysRestart(w) ==
    /\ w # innerWidth
    /\ innerWidth' = w
    /\ IF mounted
       THEN /\ tier' = getDeviceTier(w)
            /\ timers' = TimerEffects(tier', onComplete)
            /\ raf' = ProgressEffect(tier')
            /\ age' = 0
            /\ video' = VideoFor(tier')
            /\ trail' = IF tier' # tier THEN Remember(tier') ELSE trail
            /\ ticked' = FALSE
       ELSE UNCHANGED <<tier, timers, raf, age, video, trail, ticked>>
    /\ UNCHANGED <<mounted, videoReady, progress, completedRef, onComplete,
                   calls>>

\* Variant: a tier change arms the new timer without clearing the old one.
Resize_NoCleanup(w) ==
    /\ w # innerWidth
    /\ innerWidth' = w
    /\ IF mounted /\ getDeviceTier(w) # tier
       THEN /\ tier' = getDeviceTier(w)
            /\ timers' = timers \cup TimerEffects(tier', onComplete)
            /\ raf' = ProgressEffect(tier')
            /\ age' = 0
            /\ video' = VideoFor(tier')
            /\ trail' = Remember(tier')
            /\ ticked' = FALSE
       ELSE UNCHANGED <<tier, timers, raf, age, video, trail, ticked>>
    /\ UNCHANGED <<mounted, videoReady, progress, completedRef, onComplete,
                   calls>>

\* A resize event with the viewport now w wide: onResize, and the render
\* and effects that setTier causes when the tier differs.
Resize(w) ==
    /\ w # innerWidth
    /\ innerWidth' = w
    /\ IF mounted /\ getDeviceTier(w) # tier
       THEN /\ tier' = getDeviceTier(w)
            /\ timers' = TimerEffects(tier', onComplete)
            /\ raf' = ProgressEffect(tier')
            /\ age' = 0
            /\ video' = VideoFor(tier')
            /\ trail' = Remember(tier')
            /\ ticked' = FALSE
       ELSE UNCHANGED <<tier, timers, raf, age, video, trail, ticked>>
    /\ UNCHANGED <<mounted, videoReady, progress, completedRef, onComplete,
                   calls>>

\* Variant: the timer effects do not depend on handleEnd, so the pending
\* timer and the callback it holds are kept.
SetOnComplete_KeepTimer(c) ==
    /\ mounted
    /\ c # onComplete
    /\ onComplete' = c
    /\ UNCHANGED <<mounted, innerWidth, tier, videoReady, progress,
                   completedRef, timers, raf, age, video, calls, trail,
                   ticked>>

\* The host renders the component with another onComplete identity:
\* handleEnd changes, so the three timer effects clean up and run again.
SetOnComplete(c) ==
    /\ mounted
    /\ c # onComplete
    /\ onComplete' = c
    /\ timers' = TimerEffects(tier, c)
    /\ UNCHANGED <<mounted, innerWidth, tier, videoReady, progress,
                   completedRef, raf, age, video, calls, trail, ticked>>

\* A pending timer expires and calls the handleEnd it was given.
Timeout ==
    \E tm \in timers :
        /\ tm.elapsed = tm.delay
        /\ timers' = timers \ {tm}
        /\ handleEnd(tm.cb)
        /\ UNCHANGED <<mounted, innerWidth, tier, videoReady, progress,
                       onComplete, raf, age, video, trail, ticked>>

\* The video's ended event: onEnded={handleEnd}.
OnEnded ==
    /\ video = "playing"
    /\ video' = "ended"
    /\ handleEnd(onComplete)
    /\ UNCHANGED <<mounted, innerWidth, tier, videoReady, progress,
                   onComplete, timers, raf, age, trail, ticked>>

\* Variant: the error is logged and handleEnd is not called.
OnError_LogOnly ==
    /\ video = "playing"
    /\ video' = "failed"
    /\ UNCHANGED <<mounted, innerWidth, tier, videoReady, progress,
                   completedRef, onComplete, timers, raf, age, calls, trail,
                   ticked>>

\* The video's error event: console.error, then handleEnd().  The console
\* is not part of the state.
OnError ==
    /\ video = "playing"
    /\ video' = "failed"
    /\ handleEnd(onComplete)
    /\ UNCHANGED <<mounted, innerWidth, tier, videoReady, progress,
                   onComplete, timers, raf, age, trail, ticked>>

\* Variant: readiness also requests completion.
OnCanPlayThrough_Completes ==
    /\ video = "playing"
    /\ videoReady' = TRUE
    /\ handleEnd(onComplete)
    /\ UNCHANGED <<mounted, innerWidth, tier, progress, onComplete, timers,
                   raf, age, video, trail, ticked>>

\* Variant: the event flips the flag instead of setting it.
OnCanPlayThrough_Toggle ==
    /\ video = "playing"
    /\ videoReady' = ~videoReady
    /\ UNCHANGED <<mounted, innerWidth, tier, progress, completedRef,
                   onComplete, timers, raf, age, video, calls, trail, ticked>>

\* The video's canplaythrough event: setVideoReady(true).
OnCanPlayThrough ==
    /\ video = "playing"
    /\ videoReady' = TRUE
    /\ UNCHANGED <<mounted, innerWidth, tier, progress, completedRef,
                   onComplete, timers, raf, age, video, calls, trail, ticked>>

\* Variant: the clamp to 1 is missing.
Pct_NoClamp(elapsed, duration) == Frac(elapsed, duration)

\* pct of tick: Math.min((now - start) / duration, 1).
Pct(elapsed, duration) == Frac(Min(elapsed, duration), duration)

\* Variant: the frame that reaches 1 also requests completion.
Tick_Completes ==
    \E f \in raf :
        LET pct == Pct(age, f.duration) IN
        /\ progress' = pct
        /\ ticked' = TRUE
        /\ raf' = IF FracLess(pct, <<1, 1>>) THEN raf ELSE raf \ {f}
        /\ IF FracLess(pct, <<1, 1>>)
           THEN UNCHANGED <<completedRef, calls>>
           ELSE handleEnd(onComplete)
        /\ UNCHANGED <<mounted, innerWidth, tier, videoReady, onComplete,
                       timers, age, video, trail>>

\* One animation frame: tick(now).  The frame's timestamp is the current
\* time, which is not before start.
Tick ==
    \E f \in raf :
        LET pct == Pct(age, f.duration) IN
        /\ progress' = pct
        /\ ticked' = TRUE
        /\ raf' = IF FracLess(pct, <<1, 1>>) THEN raf ELSE raf \ {f}
        /\ UNCHANGED <<mounted, innerWidth, tier, videoReady, completedRef,
                       onComplete, timers, age, video, calls, trail>>

\* ms left until each pending timer is due.
Remaining == {tm.delay - tm.elapsed : tm \in timers}

\* Steps of time the model takes: to the branch clock's next multiple of
\* an idle granule, up to (and just short of) the next timer's due time,
\* and up to the end of the progress animation.
Steps ==
    {s - (age % s) : s \in Idle} \cup Remaining \cup {r - 1 : r \in Remaining}
                                 \cup {f.duration - age : f \in raf}

\* d ms pass.  A timer that is due runs before time passes further.
Advance(d) ==
    /\ mounted
    /\ d >= 1
    /\ \A r \in Remaining : d <= r
    /\ timers' = {[tm EXCEPT !.elapsed = @ + d] : tm \in timers}
    /\ age' = Min(age + d, MaxAge)
    /\ UNCHANGED <<mounted, innerWidth, tier, videoReady, progress,
                   completedRef, onComplete, raf, video, calls, trail, ticked>>

\* Variant: the timer effects' cleanups do not clear their timers.
Unmount_LeakTimers ==
    /\ mounted
    /\ mounted' = FALSE
    /\ raf' = {}
    /\ video' = "absent"
    /\ UNCHANGED <<innerWidth, tier, videoReady, progress, completedRef,
                   onComplete, timers, age, calls, trail, ticked>>

\* The host unmounts the component: every effect's cleanup runs.
Unmount ==
    /\ mounted
    /\ mounted' = FALSE
    /\ timers' = {}
    /\ raf' = {}
    /\ video' = "absent"
    /\ UNCHANGED <<innerWidth, tier, videoReady, progress, completedRef,
                   onComplete, age, calls, trail, ticked>>

Next ==
    \/ \E w \in Widths : Resize(w)
    \/ \E c \in Callbacks : SetOnComplete(c)
    \/ Timeout
    \/ OnEnded
    \/ OnError
    \/ OnCanPlayThrough
    \/ Tick
    \/ \E d \in Steps : Advance(d)
    \/ Unmount

Spec == Init /\ [][Next]_vars

\* The event loop runs a timer that is due, and time passes.
FairSpec ==
    /\ Spec
    /\ WF_vars(Timeout)
    /\ WF_vars(\E d \in Steps : Advance(d))

\* The classifier alone: every width up to MaxWidth as the initial
\* viewport and as the width of a resize event.
ClassifyInit == InitWith(0..MaxWidth)

ClassifyNext == \E w \in 0..MaxWidth : Resize(w)

ClassifySpec == ClassifyInit /\ [][ClassifyNext]_vars

\* ======================================================================
\* Properties
\* ======================================================================

\* C1: whatever triggers fire and in whatever order, onComplete is invoked
\* at most once in a session.
C1_AtMostOnce == Len(calls) <= 1

\* A desktop session in which the video ended and the 8000 ms cap expired
\* at the same instant, both handlers having run.
C1_Witness ==
    /\ mounted
    /\ tier = "desktop"
    /\ video = "ended"
    /\ timers = {}
    /\ age = 8000
    /\ Len(calls) = 1

\* C3: completedRef starts false, never goes back to false, and goes to
\* true only in a step of handleEnd, which leaves tier, progress and
\* videoReady alone and records the invocation of onComplete.
C3_LatchWrittenOnlyByGate ==
    /\ ~completedRef
    /\ [][/\ completedRef => completedRef'
          /\ completedRef' # completedRef =>
                /\ Len(calls') = Len(calls) + 1
                /\ UNCHANGED <<tier, progress, videoReady, raf, trail>>]_vars

\* The latch is set and a later tier change has armed a new timer.
C3_Witness ==
    /\ mounted
    /\ completedRef
    /\ age = 0
    /\ timers # {}
    /\ trail # <<tier>>


Restart == tier' # tier \/ onComplete' # onComplete

C4_FixedTimerExact ==
    [][/\ (Len(calls') > Len(calls) /\ trail = <<"mobile">>) => age = 2000
       /\ (Len(calls') > Len(calls) /\ trail = <<"tablet">>) => age = 2500
       /\ (mounted' /\ ~completedRef' /\ trail' = <<"mobile">>) => age' <= 2000
       /\ (mounted' /\ ~completedRef' /\ trail' = <<"tablet">>) => age' <= 2500
      ]_vars

\* C5: while the desktop branch is active and its video has raised neither
\* ended nor error, onComplete is invoked exactly 8000 ms after the branch
\* was activated, and a session still waiting has not passed that instant.
C5_HardCapExact ==
    [][/\ (Len(calls') > Len(calls) /\ tier = "desktop" /\ video' = "playing")
            => age = 8000
       /\ (mounted' /\ ~completedRef' /\ tier' = "desktop" /\ video' = "playing")
            => age' <= 8000
      ]_vars

\* C6: after tablet was activated and the tier switched to mobile, no timer
\* of the tablet effect is pending, and onComplete is invoked only by the
\* mobile timer, 2000 ms after the switch.
C6_SwitchRestartsTimer ==
    [][/\ trail = <<"tablet", "mobile">> =>
            \A tm \in timers : tm.owner = "mobile"
       /\ (Len(calls') > Len(calls) /\ trail = <<"tablet", "mobile">>) =>
            /\ age = 2000
            /\ \E tm \in timers : /\ tm.owner = "mobile"
                                  /\ tm.elapsed = tm.delay
                                  /\ timers' = timers \ {tm}
      ]_vars

\* C7: a media error while the video is playing completes the session in
\* the same step, exactly as a media ended event does: the latch is true
\* afterwards, onComplete has been invoked once (by this step unless the
\* latch was already set), and nothing else of the component changes.
C7_ErrorLikeEnded ==
    [][(video = "playing" /\ video' \in {"ended", "failed"}) =>
          /\ completedRef'
          /\ calls' = IF completedRef THEN calls ELSE <<onComplete>>
          /\ Len(calls') = 1
          /\ UNCHANGED <<mounted, innerWidth, tier, videoReady, progress,
                         onComplete, timers, raf, age, trail, ticked>>
      ]_vars

\* A desktop session completed by a media error before the cap could expire.
C7_Witness ==
    /\ mounted
    /\ trail = <<"desktop">>
    /\ video = "failed"
    /\ age < 8000
    /\ timers # {}
    /\ completedRef
    /\ Len(calls) = 1

\* C8: the tier of a mounted component is the class of the viewport
\* width: mobile below 768, tablet from 768 and below 1024, desktop from
\* 1024, whatever the history of the session.
C8_Classifier ==
    mounted =>
        /\ innerWidth < 768 <=> tier = "mobile"
        /\ (768 <= innerWidth /\ innerWidth < 1024) <=> tier = "tablet"
        /\ innerWidth >= 1024 <=> tier = "desktop"

\* A resize from a desktop width to the boundary width 1023.
C8_Witness ==
    /\ mounted
    /\ innerWidth = 1023
    /\ tier = "tablet"
    /\ trail = <<"desktop", "tablet">>

\* A fraction between 0 and 1.
InUnit(p) == p[2] > 0 /\ 0 <= p[1] /\ p[1] <= p[2]

\* C9: progress is in [0,1], and from one frame of a branch run to the
\* next frame of the same run it does not decrease.
C9_ProgressBoundedMonotone ==
    /\ InUnit(progress)
    /\ [][/\ InUnit(progress')
          /\ (ticked /\ ticked') => FracLeq(progress, progress')]_vars

\* A run in which a frame has set a value strictly between 0 and 1 and the
\* next frame is pending at a later time.
C9_Witness ==
    /\ ticked
    /\ raf # {}
    /\ FracLess(<<0, 1>>, progress)
    /\ FracLess(progress, <<1, 1>>)
    /\ \E f \in raf : FracLess(progress, Pct(age, f.duration))

\* C10: a frame update, also the one that brings progress to 1, leaves
\* completedRef and the invocations of onComplete unchanged.
C10_TickLeavesGateAlone ==
    [][(progress' # progress \/ (ticked' /\ ~ticked)) =>
          UNCHANGED <<completedRef, calls>>]_vars

\* The mobile animation has reached 1 at 1800 ms and the 2000 ms timer has
\* not fired yet.
C10_Witness ==
    /\ mounted
    /\ trail = <<"mobile">>
    /\ ticked
    /\ progress = <<1, 1>>
    /\ raf = {}
    /\ age = 1800
    /\ ~completedRef
    /\ calls = <<>>

\* C11: the unmount step leaves no timer and no frame callback pending and
\* removes the resize listener: from then on onComplete is not invoked and
\* nothing of the component changes (only the viewport width does).
C11_UnmountCancelsAll ==
    [][/\ (mounted /\ ~mounted') =>
            /\ timers' = {}
            /\ raf' = {}
            /\ UNCHANGED <<calls, completedRef>>
       /\ ~mounted =>
            UNCHANGED <<mounted, tier, videoReady, progress, completedRef,
                        onComplete, timers, raf, video, calls, trail, ticked>>
      ]_vars

\* Unmounted before completion, and the viewport has since been resized to
\* a width of another tier.
C11_Witness ==
    /\ ~mounted
    /\ ~completedRef
    /\ calls = <<>>
    /\ tier = "mobile"
    /\ innerWidth = 1024
    /\ timers = {}
    /\ raf = {}

\* C12: when the mobile or tablet strategy starts (first activation or a
\* tier change into it), progress is 0 until the first frame of that run.
C12_ProgressResetOnStart ==
    (mounted /\ tier # "desktop" /\ ~ticked) => progress = <<0, 1>>

\* A step of a component that stays mounted in which a pending timer
\* expires and is removed.
FiresTimer ==
    /\ mounted'
    /\ \E tm \in timers : tm.elapsed = tm.delay /\ timers' = timers \ {tm}

\* C13: in a desktop session completed by the video's ended event, the cap
\* timer armed at activation never expires afterwards.
C13_CapNeverFiresAfterEnded ==
    [][(/\ mounted
        /\ trail = <<"desktop">>
        /\ video = "ended"
        /\ completedRef
        /\ \A tm \in timers : tm.elapsed = age) => ~FiresTimer]_vars

\* C13 (amended): the ended event that completes a desktop session invokes
\* onComplete once and leaves the cap timer pending; when that timer
\* expires later, the latch and the invocations are unchanged.
C13_CapAfterEndedIsNoOp ==
    [][/\ (video = "playing" /\ video' = "ended" /\ ~completedRef) =>
            /\ calls' = <<onComplete>>
            /\ timers' = timers
            /\ timers # {}
       /\ (tier = "desktop" /\ video = "ended" /\ FiresTimer) =>
            /\ completedRef
            /\ UNCHANGED <<completedRef, calls>>
            /\ Len(calls) = 1
      ]_vars

\* A desktop session whose video ended before 8000 ms and whose cap timer
\* has since expired, with one invocation of onComplete.
C13_Witness ==
    /\ mounted
    /\ trail = <<"desktop">>
    /\ onComplete = 1
    /\ video = "ended"
    /\ timers = {}
    /\ age >= 8000
    /\ calls = <<1>>

\* C14: once the latch is set the component makes no further transition:
\* the tier, progress and videoReady are frozen, no timer is armed and no
\* frame callback is requested.
C14_DoneIsTerminal ==
    [][completedRef =>
          /\ UNCHANGED <<tier, progress, videoReady>>
          /\ \A tm \in timers' : tm.elapsed > 0 \/ tm \in timers
          /\ raf' \subseteq raf]_vars

\* C14 (amended): once the latch is set it stays set and onComplete is not
\* invoked again; this is all that is frozen.
C14_DoneFreezesGateOnly ==
    [][completedRef =>
          /\ completedRef'
          /\ calls' = calls
          /\ Len(calls) = 1]_vars

\* After completion through callback 1 the host passed callback 2, the
\* tier changed, frames ran, and the timer armed last has expired.
C14_Witness ==
    /\ mounted
    /\ completedRef
    /\ calls = <<1>>
    /\ onComplete = 2
    /\ trail # <<tier>>
    /\ ticked
    /\ timers = {}

\* C15: a mounted component has at most one pending timer, that of the
\* active tier with that tier's delay, and the <video> exists only in the
\* desktop tier, so that no event of an abandoned video reaches handleEnd.
C15_OneTimerOfActiveTier ==
    mounted =>
        /\ Cardinality(timers) <= 1
        /\ \A tm \in timers :
              /\ tm.owner = tier
              /\ tm.elapsed <= tm.delay
              /\ tier = "mobile" => tm.delay = 2000
              /\ tier = "tablet" => tm.delay = 2500
              /\ tier = "desktop" => tm.delay = 8000
        /\ tier # "desktop" => video = "absent"

\* Desktop was left for mobile and the mobile timer is due.
C15_Witness ==
    /\ mounted
    /\ trail = <<"desktop", "mobile">>
    /\ video = "absent"
    /\ \E tm \in timers : tm.owner = "mobile" /\ tm.elapsed = 2000

\* C16: the step that changes videoReady (the canplaythrough event)
\* changes nothing else: the latch, the tier, the pending timers, the
\* progress and the record of callback invocations are as before.
C16_ReadinessOnly ==
    [][videoReady' # videoReady =>
          /\ video = "playing"
          /\ UNCHANGED <<mounted, innerWidth, tier, progress, completedRef,
                         onComplete, timers, raf, age, video, calls, trail,
                         ticked>>]_vars

\* The video became ready while the cap timer was pending, and nothing
\* has completed.
C16_Witness ==
    /\ mounted
    /\ videoReady
    /\ video = "playing"
    /\ ~completedRef
    /\ calls = <<>>
    /\ \E tm \in timers : tm.owner = "desktop" /\ tm.elapsed > 0

\* C17: videoReady starts false and never goes from true to false, so it
\* turns true at most once; entering the desktop tier leaves it as it was.
C17_ReadyOnceNeverBack ==
    /\ ~videoReady
    /\ [][/\ videoReady => videoReady'
          /\ (tier # "desktop" /\ tier' = "desktop") =>
                 videoReady' = videoReady]_vars

\* The desktop tier was left and entered again, and the new run starts
\* with videoReady already true although its video has just been created.
C17_Witness ==
    /\ mounted
    /\ videoReady
    /\ tier = "desktop"
    /\ trail = Forgotten
    /\ video = "playing"
    /\ age = 0

\* C18: in the desktop tier no frame callback is pending and no step
\* changes progress; at most one frame callback is pending at any time;
\* and once a frame of the current run has set progress to 1 none is
\* pending.
C18_AnimatorScope ==
    /\ [](/\ tier = "desktop" => raf = {}
          /\ Cardinality(raf) <= 1
          /\ (ticked /\ progress = <<1, 1>>) => raf = {})
    /\ [][tier = "desktop" => progress' = progress]_vars

\* A tablet run whose frame at 2200 ms set progress to 1: no frame
\* callback is left although the completion timer is still pending.
C18_Witness ==
    /\ mounted
    /\ tier = "tablet"
    /\ ticked
    /\ progress = <<1, 1>>
    /\ raf = {}
    /\ \E tm \in timers : tm.elapsed < tm.delay

\* Width w classifies to tier t (thresholds of getDeviceTier).
SameTier(w, t) ==
    \/ t = "mobile" /\ w < 768
    \/ t = "tablet" /\ 768 <= w /\ w < 1024
    \/ t = "desktop" /\ 1024 <= w

\* C19: a resize of a mounted component to a width of the active tier
\* changes the recorded width only: the pending timer keeps its elapsed
\* time, the animation its start, and the latch and videoReady their
\* values.
C19_SameTierResizeIsNoOp ==
    [][(mounted /\ innerWidth' # innerWidth /\ SameTier(innerWidth', tier)) =>
          UNCHANGED <<mounted, tier, videoReady, progress, completedRef,
                      onComplete, timers, raf, age, video, calls, trail,
                      ticked>>]_vars

\* A tablet run, the only one of the session, at the upper width of the
\* tier with its timer and its animation part-way through.
C19_Witness ==
    /\ mounted
    /\ trail = <<"tablet">>
    /\ innerWidth = 1023
    /\ ticked
    /\ raf # {}
    /\ ~completedRef
    /\ \E tm \in timers : tm.elapsed = age /\ tm.elapsed = 1000

\* Delay of tier t in ms, as written in the three timer effects.
FullDelay(t) ==
    IF t = "mobile" THEN 2000 ELSE IF t = "tablet" THEN 2500 ELSE 8000

=============================================================================
